---- MODULE Spec2Model ----
(***************************************************************************)
(* Model of src/unets/unet.py: the recomputation wrapper `checkpointed`,   *)
(* the construction of a Unet (Unet.__init__) and its forward pass         *)
(* (Unet.forward).                                                         *)
(*                                                                         *)
(* Tensors are records [ch, val, call, id]: ch is the channel count        *)
(* (inp.size(1)), val is the value as a term over the block functions in   *)
(* prefix notation (<<0,x>> an input, <<1,i>> \o t the output of encoder   *)
(* stage i on t, <<2,i>> \o b \o h the output of decoder stage i on b and  *)
(* h), call is the number of the forward call that created the tensor and  *)
(* id its position among the tensors of that call (object identity).       *)
(***************************************************************************)
EXTENDS Integers, Sequences, FiniteSets, TLC

\* ---- bounds of the model ----
MaxDepth == 3
MaxCh == 2
MaxCalls == 3
MaxArgs == 2

\* default kernel size of Unet.__init__
size == 5

VARIABLES
  pc,            \* position: "new","down","up","ready","failed","enc","dec"
  args,          \* the constructor's arguments [in_features, down, up, setup]
  in_features,   \* self.in_features
  down,          \* self.down
  up,            \* self.up
  path_down,     \* self.path_down
  path_up,       \* self.path_up
  n_params,      \* self.n_params
  err,           \* the exception raised by the last operation, "none" if none
  n_inst,        \* probe: number of block constructor calls so far
  inp,           \* forward: the argument
  features,      \* forward: local `features`
  f_bot,         \* forward: local `f_bot`
  features_horizontal, \* forward: local `features_horizontal`
  i,             \* index of the running loop
  ret,           \* forward: the returned tensor
  log,           \* probe: the stage invocations of the current forward call
  ncalls,        \* number of forward calls made so far
  outs,          \* probe: (input, output) of every forward call that returned
  ck_args,       \* Checkpointed.forward: positional arguments of the last call
  ck_kwargs,     \* Checkpointed.forward: keyword arguments of the last call
  ck_path,       \* Checkpointed.forward: "checkpoint" or "direct" ("none" before a call)
  ck_fwd         \* Checkpointed.forward: what super_fwd was called with

vars == <<pc, args, in_features, down, up, path_down, path_up, n_params, err,
          n_inst, inp, features, f_bot, features_horizontal, i, ret, log,
          ncalls, outs, ck_args, ck_kwargs, ck_path, ck_fwd>>

ctorVars == <<args, in_features, down, up, path_down, path_up, n_params, n_inst>>
fwdLocals == <<inp, features, f_bot, features_horizontal, i, ret>>
ckVars == <<ck_args, ck_kwargs, ck_path, ck_fwd>>

\* ---- helpers: Python list operations ----
Min(a, b) == IF a <= b THEN a ELSE b

SeqsUpTo(S, n) == UNION {[1..m -> S] : m \in 0..n}

\* s[-1]
Last(s) == s[Len(s)]

\* s[:-1]
ButLast(s) == SubSeq(s, 1, Len(s) - 1)

\* s[1:]
Tail1(s) == SubSeq(s, 2, Len(s))

\* s[-2::-1]: from the second-to-last element back to the first
RevFromSecondLast(s) ==
  [j \in 1..(IF Len(s) >= 1 THEN Len(s) - 1 ELSE 0) |-> s[Len(s) - j]]

RECURSIVE SumNumel(_)
SumNumel(ps) == IF ps = <<>> THEN 0 ELSE Head(ps).numel + SumNumel(Tail(ps))

RECURSIVE Flatten(_)
Flatten(ss) == IF ss = <<>> THEN <<>> ELSE Head(ss) \o Flatten(Tail(ss))

\* ---- the blocks (external collaborators) ----
\* A parameter is [numel, requires_grad]; a block class registers a list of them.
Profiles ==
  { <<[numel |-> 2, requires_grad |-> TRUE]>>,
    <<[numel |-> 1, requires_grad |-> TRUE], [numel |-> 2, requires_grad |-> FALSE]>> }

\* setup: the block classes (by the parameters they register) and the
\* optional key 'checkpointed' ("absent" when the key is missing)
Setups ==
  [down_block : Profiles, up_block : Profiles, checkpointed : {"absent", "off", "on"}]

\* the default setup: its blocks register trainable parameters only, no key
\* 'checkpointed'
fat_setup ==
  [down_block |-> <<[numel |-> 2, requires_grad |-> TRUE]>>,
   up_block |-> <<[numel |-> 2, requires_grad |-> TRUE]>>,
   checkpointed |-> "absent"]

NoTensor == [ch |-> 0, val |-> <<>>, call |-> 0, id |-> 0]

\* 'checkpointed' in setup and setup['checkpointed']
UseCheckpoint(setup) == setup.checkpointed = "on"

\* DownBlock(d_in, d_out, size=size, name=f'down_{i}', setup=setup, is_first=i==0)
DownBlock(d_in, d_out, sz, idx, setup) ==
  [kind |-> "down", idx |-> idx, d_in |-> d_in, d_hor |-> 0, d_out |-> d_out,
   size |-> sz, is_first |-> (idx = 0), checkpointed |-> UseCheckpoint(setup),
   params |-> setup.down_block]

\* faulty variant: the horizontal width is taken as the channel-out count
UpBlockSwapped(d_bot, d_hor, d_out, sz, idx, setup) ==
  [kind |-> "up", idx |-> idx, d_in |-> d_bot, d_hor |-> d_out, d_out |-> d_hor,
   size |-> sz, is_first |-> FALSE, checkpointed |-> UseCheckpoint(setup),
   params |-> setup.up_block]

\* UpBlock(d_bot, d_hor, d_out, size=size, name=f'up_{i}', setup=setup)
UpBlock(d_bot, d_hor, d_out, sz, idx, setup) ==
  [kind |-> "up", idx |-> idx, d_in |-> d_bot, d_hor |-> d_hor, d_out |-> d_out,
   size |-> sz, is_first |-> FALSE, checkpointed |-> UseCheckpoint(setup),
   params |-> setup.up_block]

\* layer(x) of a down block: declared channel-out, value a function of the input
DownFwd(block, x, call, id) ==
  [ch |-> block.d_out, val |-> <<1, block.idx>> \o x.val, call |-> call, id |-> id]

\* layer(f_bot, f_hor) of an up block
UpFwd(block, b, h, call, id) ==
  [ch |-> block.d_out, val |-> <<2, block.idx>> \o b.val \o h.val,
   call |-> call, id |-> id]

\* ---- Unet.__init__ ----
\* faulty variant: the check only rejects a `down` that is too short
LengthsOkAtLeast(d, u) == Len(d) >= Len(u) + 1

\* not (len(down) == len(up) + 1) is the error case
LengthsOk(d, u) == Len(d) = Len(u) + 1

down_dims == <<args.in_features>> \o args.down
bot_dims == <<Last(args.down)>> \o args.up
\* faulty variant: the deepest encoder width is taken as the first skip width
hor_dims_full == [j \in 1..Len(args.down) |-> args.down[Len(args.down) + 1 - j]]
hor_dims == RevFromSecondLast(down_dims)

\* number of iterations of the two construction loops (zip stops at the shortest)
\* faulty variant: the encoder loop pairs the entries of `down` alone
DownItersNoInput == Len(args.down) - 1
DownIters == Min(Len(ButLast(down_dims)), Len(Tail1(down_dims)))
UpIters == Min(Min(Len(bot_dims), Len(hor_dims)), Len(args.up))

\* self.parameters(): every registered parameter of every block
Parameters == Flatten([j \in 1..Len(path_down) |-> path_down[j].params])
              \o Flatten([j \in 1..Len(path_up) |-> path_up[j].params])

\* the loop of lines 85-87
CountParams(ps) == SumNumel(ps)

\* the arguments a caller may pass to Unet(...), with a setup of S
CtorArgs(S) ==
  [in_features : 1..MaxCh,
   down : SeqsUpTo(1..MaxCh, MaxDepth),
   up : SeqsUpTo(1..MaxCh, MaxDepth - 1),
   setup : S]

\* the state before the constructor runs, with arguments of A; CkA are the
\* argument lists of the call of a wrapped forward
InitWith(A, CkA) ==
  /\ pc = "new"
  /\ args \in A
  /\ in_features = 0 /\ down = <<>> /\ up = <<>>
  /\ path_down = <<>> /\ path_up = <<>> /\ n_params = 0
  /\ err = "none" /\ n_inst = 0
  /\ inp = NoTensor /\ features = <<>> /\ f_bot = NoTensor
  /\ features_horizontal = <<>> /\ i = 0 /\ ret = NoTensor
  /\ log = <<>> /\ ncalls = 0 /\ outs = <<>>
  /\ ck_args \in CkA /\ ck_kwargs \in CkA
  /\ ck_path = "none" /\ ck_fwd = <<>>

\* Unet(in_features, up, down) with the default setup
Init == InitWith(CtorArgs({fat_setup}), {<<>>})

\* lines 54-55: the schedules do not fit, ValueError
CtorReject ==
  /\ pc = "new"
  /\ ~LengthsOk(args.down, args.up)
  /\ pc' = "failed" /\ err' = "ValueError"
  /\ UNCHANGED <<ctorVars, fwdLocals, log, ncalls, outs, ckVars>>

\* lines 54-69: the schedules fit, the fields are stored
CtorBegin ==
  /\ pc = "new"
  /\ LengthsOk(args.down, args.up)
  /\ up' = args.up /\ down' = args.down /\ in_features' = args.in_features
  /\ path_down' = <<>> /\ i' = 0
  /\ pc' = "down"
  /\ UNCHANGED <<args, path_up, n_params, err, n_inst, inp, features, f_bot,
                 features_horizontal, ret, log, ncalls, outs, ckVars>>

\* lines 70-74: one iteration of the encoder loop
BuildDown ==
  /\ pc = "down" /\ i < DownIters
  /\ path_down' = Append(path_down,
        DownBlock(ButLast(down_dims)[i + 1], Tail1(down_dims)[i + 1], size, i, args.setup))
  /\ n_inst' = n_inst + 1
  /\ i' = i + 1
  /\ UNCHANGED <<pc, args, in_features, down, up, path_up, n_params, err, inp,
                 features, f_bot, features_horizontal, ret, log, ncalls, outs, ckVars>>

\* lines 76-78: the encoder loop is over
BuildMid ==
  /\ pc = "down" /\ i = DownIters
  /\ path_up' = <<>> /\ i' = 0
  /\ pc' = "up"
  /\ UNCHANGED <<args, in_features, down, up, path_down, n_params, err, n_inst,
                 inp, features, f_bot, features_horizontal, ret, log, ncalls,
                 outs, ckVars>>

\* lines 79-83: one iteration of the decoder loop
BuildUp ==
  /\ pc = "up" /\ i < UpIters
  /\ path_up' = Append(path_up,
        UpBlock(bot_dims[i + 1], hor_dims[i + 1], args.up[i + 1], size, i, args.setup))
  /\ n_inst' = n_inst + 1
  /\ i' = i + 1
  /\ UNCHANGED <<pc, args, in_features, down, up, path_down, n_params, err, inp,
                 features, f_bot, features_horizontal, ret, log, ncalls, outs, ckVars>>

\* lines 85-87: the decoder loop is over, the parameters are counted
CtorEnd ==
  /\ pc = "up" /\ i = UpIters
  /\ n_params' = CountParams(Parameters)
  /\ pc' = "ready"
  /\ UNCHANGED <<args, in_features, down, up, path_down, path_up, err, n_inst,
                 fwdLocals, log, ncalls, outs, ckVars>>

\* ---- Unet.forward ----
\* the tensors a caller may pass: any channel count, the value the symbol 0
\* (the calls that are compared are calls on identical inputs)
Inputs == [ch : 1..MaxCh, x : {0}]

InputTensor(a, call) == [ch |-> a.ch, val |-> <<0, a.x>>, call |-> call, id |-> 0]

\* faulty variant: only too few channels are rejected
ShapeOkAtLeast(x, nf) == x.ch >= nf

\* inp.size(1) != self.in_features is the error case
ShapeOk(x, nf) == x.ch = nf

\* faulty variant: a trace kept from an earlier call is continued
NewTraceKept(prev, x) == IF prev = <<>> THEN <<x>> ELSE <<Last(prev)>>

\* features = [inp]: a new list, whatever `features` held before
NewTrace(prev, x) == <<x>>

\* faulty variant: every encoder stage is applied to the raw input
EncInputFirst(fs) == fs[1]

\* features[-1], the argument of the next encoder stage
EncInput(fs) == Last(fs)

\* faulty variant: features[::-1], the deepest output is the first skip
SkipListFull(fs) == [j \in 1..Len(fs) |-> fs[Len(fs) + 1 - j]]

\* features_horizontal = features[-2::-1]
SkipList(fs) == RevFromSecondLast(fs)

\* number of iterations of zip(self.path_up, features_horizontal)
DecIters == Min(Len(path_up), Len(features_horizontal))

\* lines 92-95: wrong channel count, ValueError
ForwardReject(a) ==
  /\ pc = "ready" /\ ncalls < MaxCalls
  /\ LET x == InputTensor(a, ncalls + 1) IN
       /\ ~ShapeOk(x, in_features)
       /\ inp' = x
  /\ ncalls' = ncalls + 1
  /\ err' = "ValueError"
  /\ log' = <<>> /\ ret' = NoTensor
  /\ UNCHANGED <<pc, ctorVars, features, f_bot, features_horizontal, i, outs, ckVars>>

\* lines 92-97: the channel count fits, the trace starts with the input
ForwardBegin(a) ==
  /\ pc = "ready" /\ ncalls < MaxCalls
  /\ LET x == InputTensor(a, ncalls + 1) IN
       /\ ShapeOk(x, in_features)
       /\ inp' = x
       /\ features' = NewTrace(features, x)
  /\ ncalls' = ncalls + 1
  /\ err' = "none"
  /\ log' = <<>> /\ ret' = NoTensor
  /\ i' = 0
  /\ pc' = "enc"
  /\ UNCHANGED <<ctorVars, f_bot, features_horizontal, outs, ckVars>>

\* lines 98-99: one encoder stage
EncStep ==
  /\ pc = "enc" /\ i < Len(path_down)
  /\ LET layer == path_down[i + 1]
         x == EncInput(features)
         out == DownFwd(layer, x, ncalls, Len(log) + 1) IN
       /\ features' = Append(features, out)
       /\ log' = Append(log, [kind |-> layer.kind, idx |-> layer.idx,
                              args |-> <<x>>, out |-> out])
  /\ i' = i + 1
  /\ UNCHANGED <<pc, ctorVars, err, inp, f_bot, features_horizontal, ret, ncalls,
                 outs, ckVars>>

\* lines 101-102: the encoder loop is over
EncEnd ==
  /\ pc = "enc" /\ i = Len(path_down)
  /\ f_bot' = Last(features)
  /\ features_horizontal' = SkipList(features)
  /\ i' = 0
  /\ pc' = "dec"
  /\ UNCHANGED <<ctorVars, err, inp, features, ret, log, ncalls, outs, ckVars>>

\* lines 104-105: one decoder stage
DecStep ==
  /\ pc = "dec" /\ i < DecIters
  /\ LET layer == path_up[i + 1]
         f_hor == features_horizontal[i + 1]
         out == UpFwd(layer, f_bot, f_hor, ncalls, Len(log) + 1) IN
       /\ f_bot' = out
       /\ log' = Append(log, [kind |-> layer.kind, idx |-> layer.idx,
                              args |-> <<f_bot, f_hor>>, out |-> out])
  /\ i' = i + 1
  /\ UNCHANGED <<pc, ctorVars, err, inp, features, features_horizontal, ret,
                 ncalls, outs, ckVars>>

\* line 107: the decoder loop is over, f_bot is returned
Return ==
  /\ pc = "dec" /\ i = DecIters
  /\ ret' = f_bot
  /\ outs' = Append(outs, [inp |-> [ch |-> inp.ch, val |-> inp.val],
                             out |-> [ch |-> f_bot.ch, val |-> f_bot.val]])
  /\ pc' = "ready"
  /\ UNCHANGED <<ctorVars, err, inp, features, f_bot, features_horizontal, i,
                 log, ncalls, ckVars>>

Next ==
  \/ CtorReject
  \/ CtorBegin
  \/ BuildDown
  \/ BuildMid
  \/ BuildUp
  \/ CtorEnd
  \/ \E a \in Inputs : ForwardReject(a)
  \/ \E a \in Inputs : ForwardBegin(a)
  \/ EncStep
  \/ EncEnd
  \/ DecStep
  \/ Return

Spec == Init /\ [][Next]_vars

\* the construction alone, with every setup
CtorInit == InitWith(CtorArgs(Setups), {<<>>})

CtorNext ==
  \/ CtorReject
  \/ CtorBegin
  \/ BuildDown
  \/ BuildMid
  \/ BuildUp
  \/ CtorEnd

CtorSpec == CtorInit /\ [][CtorNext]_vars

\* ---- checkpointed(cls): Checkpointed.forward ----
\* what a caller may pass: tensors and other objects, with or without requires_grad
ArgVals == [is_tensor : BOOLEAN, requires_grad : BOOLEAN]

\* faulty variant: all(...) instead of any(...)
AllRequireGrad(a) == \A j \in 1..Len(a) : a[j].is_tensor /\ a[j].requires_grad

\* any((torch.is_tensor(arg) and arg.requires_grad) for arg in args)
AnyRequiresGrad(a) == \E j \in 1..Len(a) : a[j].is_tensor /\ a[j].requires_grad

\* lines 41-44: checkpoint(super_fwd, *args, **kwargs) or super_fwd(*args, **kwargs)
Dispatch(a, kw) == IF AnyRequiresGrad(a) THEN "checkpoint" ELSE "direct"

\* the arguments of one call of the wrapped forward
CkInit ==
  InitWith({[in_features |-> 1, down |-> <<1>>, up |-> <<>>, setup |-> fat_setup]},
           SeqsUpTo(ArgVals, MaxArgs))

\* lines 39-44: the call of the wrapped forward
CkForward ==
  /\ ck_path = "none"
  /\ ck_path' = Dispatch(ck_args, ck_kwargs)
  /\ ck_fwd' = <<ck_args, ck_kwargs>>
  /\ UNCHANGED <<pc, ctorVars, err, fwdLocals, log, ncalls, outs, ck_args, ck_kwargs>>

CkNext == CkForward

CkSpec == CkInit /\ [][CkNext]_vars

\* ---- properties ----
Constructed == pc \in {"ready", "enc", "dec"}
Returned == pc = "ready" /\ ncalls > 0 /\ err = "none"
Reverse(s) == [j \in 1..Len(s) |-> s[Len(s) + 1 - j]]
IsTrainable(p) == p.requires_grad
UpEntries == {k \in 1..Len(log) : log[k].kind = "up"}
DownEntries == {k \in 1..Len(log) : log[k].kind = "down"}

\* C1: in a forward call of a network with D = len(down) >= 2, decoder stage i
\* gets as its horizontal argument exactly the tensor encoder stage D-2-i
\* produced in the same call; the raw input and the output of the deepest
\* encoder stage are never a horizontal argument.
SkipWiring ==
  \A k \in UpEntries :
    LET D == Len(down)
        hor == log[k].args[2] IN
      /\ D >= 2
      /\ log[k].idx \in 0..(D - 2)
      /\ \E m \in DownEntries : log[m].idx = D - 2 - log[k].idx /\ log[m].out = hor
      /\ hor.call = ncalls
      /\ hor # inp
      /\ \A m \in DownEntries : log[m].idx = D - 1 => log[m].out # hor

SkipWiringWitness ==
  /\ Returned /\ Len(down) = 3
  /\ \E k \in UpEntries : log[k].idx = 1 /\ log[k].args[2].val = <<1, 0>> \o inp.val

\* C2: with len(down) = len(up) + 1 the construction does not fail and ends
\* with len(down) blocks in path_down and len(up) blocks in path_up.
ConstructionBuildsPaths ==
  (Len(args.down) = Len(args.up) + 1) =>
     /\ pc # "failed"
     /\ ncalls = 0 => err = "none"
     /\ Constructed => /\ Len(path_down) = Len(args.down)
                       /\ Len(path_up) = Len(args.up)

ConstructionBuildsPathsWitness ==
  /\ pc = "ready" /\ ncalls = 0
  /\ Len(path_down) = 1 /\ path_up = <<>> /\ args.up = <<>>

\* C3: with len(down) # len(up) + 1 the construction fails with ValueError
\* before any block is instantiated; both paths stay empty.
ConstructionRejects ==
  (Len(args.down) # Len(args.up) + 1 /\ pc # "new") =>
     /\ pc = "failed" /\ err = "ValueError"
     /\ n_inst = 0 /\ path_down = <<>> /\ path_up = <<>>

ConstructionRejectsWitness ==
  pc = "failed" /\ args.down = <<>> /\ n_inst = 0

\* C4: a forward call whose input has a channel count other than in_features
\* fails with ValueError and invokes no stage.
ShapeErrorBeforeStages ==
  (Constructed /\ ncalls > 0 /\ inp.ch # in_features) =>
     /\ pc = "ready" /\ err = "ValueError"
     /\ log = <<>> /\ ret = NoTensor

ShapeErrorBeforeStagesWitness ==
  pc = "ready" /\ ncalls > 0 /\ inp.ch # in_features /\ err = "ValueError"

\* C5: a forward call on an input with in_features channels returns a tensor
\* with up[-1] channels, or down[-1] channels when up is empty.
OutputChannels ==
  Returned => ret.ch = (IF up # <<>> THEN up[Len(up)] ELSE down[Len(down)])

OutputChannelsWitness ==
  /\ Returned /\ Len(up) = 2 /\ up[2] # down[1] /\ up[2] # down[3]
  /\ ret.ch = up[2]

NParamsCountsTrainable ==
  Constructed => n_params = SumNumel(SelectSeq(Parameters, IsTrainable))

\* C8: forward calls with the same input return the same output, whatever
\* calls came before; every stage argument of a call was created in that call.
ForwardDeterministic ==
  /\ \A a, b \in 1..Len(outs) : outs[a].inp = outs[b].inp => outs[a].out = outs[b].out
  /\ \A k \in 1..Len(log) : \A m \in 1..Len(log[k].args) : log[k].args[m].call = ncalls
  /\ pc \in {"enc", "dec"} => \A k \in 1..Len(features) : features[k].call = ncalls

ForwardDeterministicWitness ==
  /\ Returned /\ ncalls = 3 /\ Len(outs) = 2
  /\ outs[1].inp = outs[2].inp /\ outs[1].out = outs[2].out
  /\ Len(log) = 3

\* C9: every stage gets the channel counts it was constructed with: encoder
\* stage i gets ([in_features] + down)[i]; decoder stage i gets
\* ([down[-1]] + up)[i] from below and reverse(down[:-1])[i] as the skip.
StageChannelsFit ==
  \A k \in 1..Len(log) :
    LET j == log[k].idx + 1 IN
      IF log[k].kind = "down"
      THEN /\ log[k].args[1].ch = path_down[j].d_in
           /\ log[k].args[1].ch = (<<in_features>> \o down)[j]
      ELSE /\ log[k].args[1].ch = path_up[j].d_in
           /\ log[k].args[1].ch = (<<down[Len(down)]>> \o up)[j]
           /\ log[k].args[2].ch = path_up[j].d_hor
           /\ log[k].args[2].ch = Reverse(SubSeq(down, 1, Len(down) - 1))[j]

StageChannelsFitWitness ==
  /\ Returned /\ Len(log) = 5
  /\ down[1] # down[3] /\ down[1] # down[2] /\ in_features # down[1]

\* C10: a forward call on a fitting input makes exactly 2*D-1 stage
\* invocations: encoder stages 0..D-1 in order, each on the output of the
\* one before (stage 0 on the input), the trace then holding D+1 entries;
\* then decoder stages 0..D-2 in order.
StageOrder ==
  LET D == Len(down) IN
    /\ Constructed => Len(log) <= 2 * D - 1
    /\ \A k \in 1..Len(log) :
         IF k <= D
         THEN /\ log[k].kind = "down" /\ log[k].idx = k - 1
              /\ log[k].args = <<IF k = 1 THEN inp ELSE log[k - 1].out>>
         ELSE /\ log[k].kind = "up" /\ log[k].idx = k - D - 1
    /\ pc = "enc" => Len(log) = i /\ Len(features) = i + 1
    /\ pc = "dec" => Len(log) = D + i /\ Len(features) = D + 1
    /\ Returned => Len(log) = 2 * D - 1 /\ Len(features) = D + 1

StageOrderWitness ==
  Returned /\ Len(down) = 3 /\ Len(log) = 5 /\ Len(features) = 4
====
